---- MODULE Spec2Model ----
(***************************************************************************)
(* TunnelModel (remoteExplorerService): the forwarded / published /       *)
(* candidates maps, the forward / name / close / address operations, the  *)
(* initial seeding, and the reactions to the tunnel service's             *)
(* onTunnelOpened / onTunnelClosed events.  The tunnel service itself is   *)
(* an external collaborator: it is modelled from its contract.             *)
(***************************************************************************)
EXTENDS Integers, Sequences, FiniteSets, Bags, TLC

\* ---------------------------------------------------------------- bounds
MaxPort == 2
MaxLocal == 1
MaxPending == 2

Ports == 1..MaxPort
LocalPorts == 1..MaxLocal

\* ---------------------------------------------------------------- values
\* `local?: number` left undefined
NoPort == 0
\* `name?: string` left undefined
NoName == "undefined"
Names == {"web"}

\* a URI, and the undefined URI
LocalUri(p) == [scheme |-> "localhost", port |-> p]
PublishedUri(p) == [scheme |-> "published", port |-> p]
NoUri == [scheme |-> "undefined", port |-> 0]

\* interface Tunnel; closeable is only ever set to true or left undefined
\* (FALSE), description is never set by the model
Tunnel(remote, localUri, local, name, closeable) ==
    [remote |-> remote, localUri |-> localUri, local |-> local,
     name |-> name, closeable |-> closeable]

\* RemoteTunnel of the tunnel service: {tunnelRemotePort, tunnelLocalPort?, localAddress?}
RemoteTunnel(remotePort, localPort, localAddress) ==
    [tunnelRemotePort |-> remotePort, tunnelLocalPort |-> localPort,
     localAddress |-> localAddress]
NoRemoteTunnel == RemoteTunnel(0, NoPort, NoUri)

\* the tunnels the service can report for a remote port: a tunnel whose
\* local endpoint is resolved (local port and address), or one that has
\* neither yet
RemoteTunnels(remotePort) ==
    { RemoteTunnel(remotePort, l, LocalUri(l)) : l \in LocalPorts }
        \cup { RemoteTunnel(remotePort, NoPort, NoUri) }

AllRemoteTunnels == UNION { RemoteTunnels(r) : r \in Ports }

\* ---------------------------------------------------------------- Map<number, T>
EmptyMap == [k \in {} |-> NoRemoteTunnel]
Has(m, k) == k \in DOMAIN m
Put(m, k, v) == [x \in DOMAIN m \cup {k} |-> IF x = k THEN v ELSE m[x]]
Delete(m, k) == [x \in DOMAIN m \ {k} |-> m[x]]
\* Map.get: the value, or undefined (the empty set)
Get(m, k) == IF k \in DOMAIN m THEN {m[k]} ELSE {}

\* ---------------------------------------------------------------- state
VARIABLES
    forwarded,      \* TunnelModel.forwarded
    published,      \* TunnelModel.published
    candidates,     \* TunnelModel.candidates
    seedPending,    \* the tunnelService.tunnels promise has not resolved yet
    seedList,       \* the tunnel list that promise resolves to
    calls,          \* forward calls suspended at `await openTunnel`
    svcTunnels,     \* tunnel service: the tunnels it has open
    fired,          \* events fired by the last step, in order
    lastOp,         \* the last step: operation, port, openTunnel's result, outcome
    observed,       \* a subscriber of onForwardPort counting the events of one forward call
    rendered,       \* the groups the tunnel panel last derived from the view model
    scope,          \* the session explored: its remote ports, its limit of suspended
                    \* calls, whether the tunnel panel is shown, whether the service
                    \* may answer openTunnel with the tunnel of another port
    disposed,       \* TunnelModel.dispose() has run
    editable,       \* RemoteExplorerService.editable
    boxes,          \* the ports with a name being typed: NameTunnelAction has run
                    \* for them and the onFinish it passed has not been called yet
    lastSet         \* the arguments of the most recent setEditable call

vars == <<forwarded, published, candidates, seedPending, seedList, calls,
          svcTunnels, fired, lastOp, observed, rendered, scope, disposed,
          editable, boxes, lastSet>>

\* ---------------------------------------------------------------- events
ForwardPortEvent(payload) == [type |-> "onForwardPort", port |-> NoPort, tunnel |-> payload]
ClosePortEvent(remote) == [type |-> "onClosePort", port |-> remote, tunnel |-> {}]
PortNameEvent(remote) == [type |-> "onPortName", port |-> remote, tunnel |-> {}]

\* IEditableData as NameTunnelAction builds it: onFinish closes over the
\* item's remote port, startingValue is the item's name
EditableData(remote, startingValue) ==
    [remote |-> remote, startingValue |-> startingValue]

\* null / undefined where IEditableData is expected
NoData == EditableData(NoPort, NoName)

\* how far the steps up to this one follow, one right after the other and on
\* one port, the course: forward gets its tunnel, the service closes that
\* tunnel, address is asked
Trail(op, remote, result) ==
    IF op = "forwardDone" /\ result = "tunnel" THEN "forwarded"
    ELSE IF op = "tunnelClosed" /\ lastOp.trail = "forwarded" /\ lastOp.remote = remote
    THEN "closed"
    ELSE IF op = "address" /\ lastOp.trail = "closed" /\ lastOp.remote = remote
    THEN "asked"
    ELSE ""

\* name: the name a name(r, n) call was given; uri: what address(r) returned;
\* data: what getEditableData(r) returned
Op(op, remote, result, outcome) ==
    [op |-> op, remote |-> remote, result |-> result, outcome |-> outcome,
     name |-> NoName, uri |-> NoUri, trail |-> Trail(op, remote, result),
     data |-> NoData]

\* ---------------------------------------------------------------- the subscriber
\* It starts counting when forward(r) passes its guard with no other call
\* suspended, counts the onForwardPort events of the steps on r while that
\* call is suspended, and gives up when another open of r gets in the way
\* (a second forward(r), or a tunnel of r opened by another source).
NoObservation == [remote |-> NoPort, seen |-> 0]

ForwardPortEvents(events) ==
    Cardinality({ i \in 1..Len(events) : events[i].type = "onForwardPort" })

Observe ==
    observed' =
        IF lastOp'.op = "forward" /\ lastOp'.outcome = "awaiting" /\ calls = EmptyBag
        THEN [remote |-> lastOp'.remote, seen |-> 0]
        ELSE IF observed = NoObservation
        THEN NoObservation
        ELSE IF \A c \in BagToSet(calls) : c.remote # observed.remote
        THEN NoObservation
        ELSE IF /\ lastOp'.remote = observed.remote
                /\ \/ lastOp'.op = "forward" /\ lastOp'.outcome = "awaiting"
                   \/ lastOp'.op = "tunnelOpened" /\ lastOp'.outcome = "external"
        THEN NoObservation
        ELSE IF lastOp'.remote = observed.remote
        THEN [observed EXCEPT !.seen = @ + ForwardPortEvents(fired')]
        ELSE observed

\* ---------------------------------------------------------------- TunnelViewModel
\* new TunnelItem(tunnelType, remote, closeable, name, description, local);
\* the lists of items are kept as sets: the order of a Map's values is the
\* order of insertion, which the maps of this model do not keep
TunnelItem(tunnelType, remote, closeable, name, local) ==
    [tunnelType |-> tunnelType, remote |-> remote, closeable |-> closeable,
     name |-> name, local |-> local]

\* a list of candidates that offers every candidate
ViewCandidates_Unfiltered ==
    { TunnelItem("Candidate", candidates[k].remote, FALSE, NoName, NoPort) :
        k \in DOMAIN candidates }

\* get candidates(): the candidates whose port is neither forwarded nor published
ViewCandidates ==
    { TunnelItem("Candidate", candidates[k].remote, FALSE, NoName, NoPort) :
        k \in { c \in DOMAIN candidates :
                  /\ ~Has(forwarded, candidates[c].remote)
                  /\ ~Has(published, candidates[c].remote) } }

\* get forwarded(): one item for each entry of the model's forwarded
ViewForwarded ==
    { TunnelItem("Forwarded", forwarded[k].remote, forwarded[k].closeable,
                 forwarded[k].name, forwarded[k].local) : k \in DOMAIN forwarded }

\* get published(): one item for each entry of the model's published
ViewPublished ==
    { TunnelItem("Published", published[k].remote, FALSE,
                 published[k].name, published[k].local) : k \in DOMAIN published }

Group(tunnelType, items) == [tunnelType |-> tunnelType, items |-> items]

\* a list of groups that opens with Add a Port
Groups_AddFirst ==
    << Group("Add", {}) >>
        \o (IF forwarded # EmptyMap THEN << Group("Forwarded", ViewForwarded) >> ELSE << >>)
        \o (IF published # EmptyMap THEN << Group("Published", ViewPublished) >> ELSE << >>)
        \o (IF ViewCandidates # {} THEN << Group("Candidate", ViewCandidates) >> ELSE << >>)

\* get groups(): Forwarded, Published and Candidates when they have something
\* to show, in that order, then the Add a Port group
Groups ==
    (IF forwarded # EmptyMap THEN << Group("Forwarded", ViewForwarded) >> ELSE << >>)
        \o (IF published # EmptyMap THEN << Group("Published", ViewPublished) >> ELSE << >>)
        \o (IF ViewCandidates # {} THEN << Group("Candidate", ViewCandidates) >> ELSE << >>)
        \o << Group("Add", {}) >>

\* what a session without the tunnel panel has derived
NoRendering == << >>

\* the tunnel panel: tree.setInput(viewModel) derives the groups once, and
\* onForwardedPortsChanged, which the view model fires on each onForwardPort,
\* onClosePort and onPortName of the model, derives them again
Render ==
    rendered' = IF scope.panel /\ fired' # << >> THEN Groups' ELSE rendered

\* ---------------------------------------------------------------- seeding
\* a seeding whose entries can be closed from the model
SeedInto_Closeable(m, list) ==
    [r \in DOMAIN m \cup { k \in DOMAIN list : list[k].localAddress # NoUri } |->
        IF r \in DOMAIN list /\ list[r].localAddress # NoUri
        THEN Tunnel(list[r].tunnelRemotePort, list[r].localAddress,
                    list[r].tunnelLocalPort, NoName, TRUE)
        ELSE m[r]]

\* a seeding that takes every listed tunnel, resolved or not
SeedInto_All(m, list) ==
    [r \in DOMAIN m \cup DOMAIN list |->
        IF r \in DOMAIN list
        THEN Tunnel(list[r].tunnelRemotePort, list[r].localAddress,
                    list[r].tunnelLocalPort, NoName, FALSE)
        ELSE m[r]]

\* tunnels.forEach(tunnel => { if (tunnel.localAddress) forwarded.set(...) })
SeedInto(m, list) ==
    [r \in DOMAIN m \cup { k \in DOMAIN list : list[k].localAddress # NoUri } |->
        IF r \in DOMAIN list /\ list[r].localAddress # NoUri
        THEN Tunnel(list[r].tunnelRemotePort, list[r].localAddress,
                    list[r].tunnelLocalPort, NoName, FALSE)
        ELSE m[r]]

SeedResolve ==
    /\ seedPending
    /\ forwarded' = SeedInto(forwarded, seedList)
    /\ seedPending' = FALSE
    /\ seedList' = EmptyMap
    /\ fired' = << >>
    /\ lastOp' = Op("seed", NoPort, "", "done")
    /\ UNCHANGED <<published, candidates, calls, svcTunnels, scope, disposed,
                   editable, boxes, lastSet>>
    /\ Observe
    /\ Render

\* ---------------------------------------------------------------- event handlers
\* onTunnelOpened listener
\* mutant: the listener forgets to drop the claimed candidate
OpenedCandidates_Kept(tunnel) == candidates

OpenedCandidates(tunnel) ==
    IF Has(candidates, tunnel.tunnelRemotePort)
    THEN Delete(candidates, tunnel.tunnelRemotePort)
    ELSE candidates

\* mutant: the listener marks the entry it inserts closeable
OpenedForwarded_Closeable(tunnel) ==
    IF ~Has(forwarded, tunnel.tunnelRemotePort) /\ tunnel.localAddress # NoUri
    THEN Put(forwarded, tunnel.tunnelRemotePort,
             Tunnel(tunnel.tunnelRemotePort, tunnel.localAddress,
                    tunnel.tunnelLocalPort, NoName, TRUE))
    ELSE forwarded

\* a listener that stores the opened tunnel before it has a local address
OpenedForwarded_Unresolved(tunnel) ==
    IF ~Has(forwarded, tunnel.tunnelRemotePort)
    THEN Put(forwarded, tunnel.tunnelRemotePort,
             Tunnel(tunnel.tunnelRemotePort, tunnel.localAddress,
                    tunnel.tunnelLocalPort, NoName, FALSE))
    ELSE forwarded

\* a listener that stores the opened tunnel over the entry it finds
OpenedForwarded_Overwrites(tunnel) ==
    IF tunnel.localAddress # NoUri
    THEN Put(forwarded, tunnel.tunnelRemotePort,
             Tunnel(tunnel.tunnelRemotePort, tunnel.localAddress,
                    tunnel.tunnelLocalPort, NoName, FALSE))
    ELSE forwarded

\* if (!this.forwarded.has(tunnel.tunnelRemotePort) && tunnel.localAddress) { set }
OpenedForwarded(tunnel) ==
    IF ~Has(forwarded, tunnel.tunnelRemotePort) /\ tunnel.localAddress # NoUri
    THEN Put(forwarded, tunnel.tunnelRemotePort,
             Tunnel(tunnel.tunnelRemotePort, tunnel.localAddress,
                    tunnel.tunnelLocalPort, NoName, FALSE))
    ELSE forwarded

OpenedFired(tunnel) ==
    << ForwardPortEvent(Get(OpenedForwarded(tunnel), tunnel.tunnelRemotePort)) >>

TunnelOpenedHandler(tunnel) ==
    /\ candidates' = OpenedCandidates(tunnel)
    /\ forwarded' = OpenedForwarded(tunnel)
    /\ fired' = OpenedFired(tunnel)
    /\ UNCHANGED published

\* onTunnelClosed listener
\* mutant: the listener fires without deleting
ClosedForwarded_Kept(remotePort) == forwarded

ClosedForwarded(remotePort) ==
    IF Has(forwarded, remotePort) THEN Delete(forwarded, remotePort) ELSE forwarded

\* mutant: the listener fires whether or not the port was forwarded
ClosedFired_Always(remotePort) == << ClosePortEvent(remotePort) >>

\* a listener that announces the removal twice
ClosedFired_Twice(remotePort) ==
    IF Has(forwarded, remotePort)
    THEN << ClosePortEvent(remotePort), ClosePortEvent(remotePort) >>
    ELSE << >>

\* if (this.forwarded.has(remotePort)) { ...; this._onClosePort.fire(remotePort) }
ClosedFired(remotePort) ==
    IF Has(forwarded, remotePort) THEN << ClosePortEvent(remotePort) >> ELSE << >>

TunnelClosedHandler(remotePort) ==
    /\ forwarded' = ClosedForwarded(remotePort)
    /\ fired' = ClosedFired(remotePort)
    /\ UNCHANGED <<published, candidates>>

\* the two listeners are registered with this._register(...): the service's
\* notifications reach them until the model is disposed
OnTunnelOpened(tunnel) ==
    IF disposed
    THEN fired' = << >> /\ UNCHANGED <<forwarded, published, candidates>>
    ELSE TunnelOpenedHandler(tunnel)

OnTunnelClosed(remotePort) ==
    IF disposed
    THEN fired' = << >> /\ UNCHANGED <<forwarded, published, candidates>>
    ELSE TunnelClosedHandler(remotePort)

\* ---------------------------------------------------------------- forward
\* a forward call suspended at `await this.tunnelService.openTunnel(remote, local)`
Call(remote, name, state, tunnel) ==
    [remote |-> remote, name |-> name, state |-> state, tunnel |-> tunnel]

Pending(call) == BagIn(call, calls)

\* mutant: forward without its guard
ForwardGuard_Always(remote) == TRUE

\* the guard of forward: if (!this.forwarded.has(remote))
ForwardGuard(remote) == ~Has(forwarded, remote)

\* forward up to the await: either nothing to do, or openTunnel(remote, local)
\* is called and the call suspends
ForwardCall(remote, local, name) ==
    /\ IF ForwardGuard(remote)
       THEN /\ BagCardinality(calls) < scope.pending
            /\ calls' = calls (+) SetToBag({Call(remote, name, "awaiting", NoRemoteTunnel)})
            /\ lastOp' = Op("forward", remote, "", "awaiting")
       ELSE /\ calls' = calls
            /\ lastOp' = Op("forward", remote, "", "fulfilled")
    /\ fired' = << >>
    /\ UNCHANGED <<forwarded, published, candidates, seedPending, seedList, svcTunnels, scope, disposed,
                   editable, boxes, lastSet>>
    /\ Observe
    /\ Render

\* mutant: newForward without the name
NewForward_Unnamed(tunnel, name) ==
    Tunnel(tunnel.tunnelRemotePort, tunnel.localAddress, tunnel.tunnelLocalPort, NoName, TRUE)

\* const newForward: Tunnel = {...}
NewForward(tunnel, name) ==
    Tunnel(tunnel.tunnelRemotePort, tunnel.localAddress, tunnel.tunnelLocalPort, name, TRUE)

\* mutant: if (tunnel)
ForwardSucceeds_AnyTunnel(call) == call.state = "tunnel"

\* if (tunnel && tunnel.localAddress)
ForwardSucceeds(call) == call.state = "tunnel" /\ call.tunnel.localAddress # NoUri

\* a continuation that leaves alone the entry another forward call stored
ResumedForwarded_KeepsFirst(call) ==
    IF /\ ForwardSucceeds(call)
       /\ ~(Has(forwarded, call.remote) /\ forwarded[call.remote].closeable)
    THEN Put(forwarded, call.remote, NewForward(call.tunnel, call.name))
    ELSE forwarded

\* if (tunnel && tunnel.localAddress) { ...; this.forwarded.set(remote, newForward) }
ResumedForwarded(call) ==
    IF ForwardSucceeds(call)
    THEN Put(forwarded, call.remote, NewForward(call.tunnel, call.name))
    ELSE forwarded

\* mutant: forward inserts without firing
ResumedFired_Silent(call) == << >>

ResumedFired(call) ==
    IF ForwardSucceeds(call)
    THEN << ForwardPortEvent({NewForward(call.tunnel, call.name)}) >>
    ELSE << >>

\* mutant: the await wrapped in a try/catch that swallows
ResumedOutcome_Swallowed(call) == "fulfilled"

\* what the caller of forward observes: there is no try/catch around the await
ResumedOutcome(call) == IF call.state = "rejected" THEN "rejected" ELSE "fulfilled"

\* what openTunnel gave the call
OpenResult(call) ==
    IF call.state = "tunnel" /\ call.tunnel.localAddress = NoUri THEN "unresolved" ELSE call.state

\* forward after the await, `settled` being the call with openTunnel's result
Continue(call, settled) ==
    /\ forwarded' = ResumedForwarded(settled)
    /\ fired' = ResumedFired(settled)
    /\ calls' = calls (-) SetToBag({call})
    /\ lastOp' = Op("forwardDone", settled.remote, OpenResult(settled), ResumedOutcome(settled))
    /\ UNCHANGED <<published, candidates, seedPending, seedList, svcTunnels, scope, disposed,
                   editable, boxes, lastSet>>
    /\ Observe
    /\ Render

\* the continuation of a call whose openTunnel returned a tunnel
ForwardResume(call) ==
    /\ Pending(call)
    /\ call.state = "tunnel"
    /\ Continue(call, call)

\* ---------------------------------------------------------------- name, close, address
\* a rename that reaches every entry
NamedForwarded_All(remote, name) ==
    IF Has(forwarded, remote)
    THEN [k \in DOMAIN forwarded |-> [forwarded[k] EXCEPT !.name = name]]
    ELSE forwarded

\* if (this.forwarded.has(remote)) this.forwarded.get(remote)!.name = name
NamedForwarded(remote, name) ==
    IF Has(forwarded, remote)
    THEN [forwarded EXCEPT ![remote].name = name]
    ELSE forwarded

NamedFired(remote) ==
    IF Has(forwarded, remote) THEN << PortNameEvent(remote) >> ELSE << >>

Name(remote, name) ==
    /\ forwarded' = NamedForwarded(remote, name)
    /\ fired' = NamedFired(remote)
    /\ lastOp' = [Op("name", remote, "", "done") EXCEPT !.name = name]
    /\ UNCHANGED <<published, candidates, seedPending, seedList, calls,
                   svcTunnels, scope, disposed,
                   editable, boxes, lastSet>>
    /\ Observe
    /\ Render

\* a close that drops the entry and announces it itself
Close_Eager(remote) ==
    /\ forwarded' = Delete(forwarded, remote)
    /\ fired' = << ClosePortEvent(remote) >>
    /\ lastOp' = Op("close", remote, "", "closeTunnel")
    /\ UNCHANGED <<published, candidates, seedPending, seedList, calls,
                   svcTunnels, scope, disposed,
                   editable, boxes, lastSet>>
    /\ Observe
    /\ Render

\* return this.tunnelService.closeTunnel(remote): the service closes the
\* tunnel, if it has it, in a later step of its own (SvcCloseTunnel)
Close(remote) ==
    /\ fired' = << >>
    /\ lastOp' = Op("close", remote, "", "closeTunnel")
    /\ UNCHANGED <<forwarded, published, candidates, seedPending, seedList, calls,
                   svcTunnels, scope, disposed,
                   editable, boxes, lastSet>>
    /\ Observe
    /\ Render

\* a lookup that asks published first
AddressOf_PublishedFirst(remote) ==
    IF Has(published, remote) THEN published[remote].localUri
    ELSE IF Has(forwarded, remote) THEN forwarded[remote].localUri
    ELSE NoUri

\* (this.forwarded.get(remote) || this.published.get(remote))?.localUri
AddressOf(remote) ==
    IF Has(forwarded, remote) THEN forwarded[remote].localUri
    ELSE IF Has(published, remote) THEN published[remote].localUri
    ELSE NoUri

Address(remote) ==
    /\ fired' = << >>
    /\ lastOp' = [Op("address", remote, "", "done") EXCEPT !.uri = AddressOf(remote)]
    /\ UNCHANGED <<forwarded, published, candidates, seedPending, seedList, calls,
                   svcTunnels, scope, disposed,
                   editable, boxes, lastSet>>
    /\ Observe
    /\ Render

\* ---------------------------------------------------------------- dispose
\* Disposable.dispose(): what was registered with this._register(...) is
\* disposed, which is the two listeners on the tunnel service and nothing
\* else; the three emitters and the maps are not registered
Dispose ==
    /\ ~disposed
    /\ disposed' = TRUE
    /\ fired' = << >>
    /\ lastOp' = Op("dispose", NoPort, "", "done")
    /\ UNCHANGED <<forwarded, published, candidates, seedPending, seedList, calls,
                   svcTunnels, scope, editable, boxes, lastSet>>
    /\ Observe
    /\ Render

\* ---------------------------------------------------------------- RemoteExplorerService
\* private editable: { remote, data } | undefined
NoEditable == [remote |-> NoPort, data |-> NoData]

EditableEvent(remote) == [type |-> "onDidChangeEditable", port |-> remote, tunnel |-> {}]

\* a setEditable whose null clears the slot of its own port only
SetEditableSlot_OwnPort(remote, data) ==
    IF data = NoData
    THEN IF editable.remote = remote THEN NoEditable ELSE editable
    ELSE [remote |-> remote, data |-> data]

\* setEditable: if (!data) this.editable = undefined; else this.editable = { remote, data }
SetEditableSlot(remote, data) ==
    IF data = NoData THEN NoEditable ELSE [remote |-> remote, data |-> data]

\* getEditableData: this.editable && this.editable.remote === remote
\*     ? this.editable.data : undefined
GetEditableDataOf(remote) ==
    IF editable # NoEditable /\ editable.remote = remote THEN editable.data ELSE NoData

GetEditableData(remote) ==
    /\ fired' = << >>
    /\ lastOp' = [Op("getEditableData", remote, "", "done")
                    EXCEPT !.data = GetEditableDataOf(remote)]
    /\ UNCHANGED <<forwarded, published, candidates, seedPending, seedList, calls,
                   svcTunnels, scope, disposed, editable, boxes, lastSet>>
    /\ Observe
    /\ Render

\* NameTunnelAction.handler on an item of the panel: setEditable(arg.remote, data)
NameTunnelAction(item) ==
    LET data == EditableData(item.remote, item.name)
    IN  /\ editable' = SetEditableSlot(item.remote, data)
        /\ lastSet' = [remote |-> item.remote, data |-> data]
        /\ boxes' = boxes \cup {item.remote}
        /\ fired' = << EditableEvent(item.remote) >>
        /\ lastOp' = Op("setEditable", item.remote, "data", "done")
        /\ UNCHANGED <<forwarded, published, candidates, seedPending, seedList, calls,
                       svcTunnels, scope, disposed>>
        /\ Observe
        /\ Render

\* the onFinish that NameTunnelAction passed for the port, called by the
\* input box: if (success) tunnelModel.name(remote, value);
\* setEditable(remote, null)
OnFinish(remote, value, success) ==
    /\ remote \in boxes
    /\ forwarded' = IF success THEN NamedForwarded(remote, value) ELSE forwarded
    /\ editable' = SetEditableSlot(remote, NoData)
    /\ lastSet' = [remote |-> remote, data |-> NoData]
    /\ boxes' = boxes \ {remote}
    /\ fired' = (IF success THEN NamedFired(remote) ELSE << >>)
                    \o << EditableEvent(remote) >>
    /\ lastOp' = Op("setEditable", remote, "null", "done")
    /\ UNCHANGED <<published, candidates, seedPending, seedList, calls,
                   svcTunnels, scope, disposed>>
    /\ Observe
    /\ Render

\* ---------------------------------------------------------------- tunnel service
\* the tunnel the service has for the port, or any tunnel it may open for it
\* (the preferred local port is a preference, the reported one is the
\* service's)
Openable(remotePort) ==
    IF Has(svcTunnels, remotePort) THEN {svcTunnels[remotePort]} ELSE RemoteTunnels(remotePort)

\* what openTunnel(remotePort) may return: a tunnel of that port, or, with a
\* service that maps the request to another port, a tunnel of any port
Answers(remotePort) ==
    IF scope.remap
    THEN UNION { Openable(p) : p \in scope.ports }
    ELSE Openable(remotePort)

\* openTunnel returns a tunnel: the service opens (or retains) the tunnel and
\* fires onTunnelOpened, whose listener runs at once; the continuation of
\* forward runs later
SvcOpenTunnel(call, tunnel) ==
    /\ Pending(call)
    /\ call.state = "awaiting"
    /\ tunnel \in Answers(call.remote)
    /\ svcTunnels' = Put(svcTunnels, tunnel.tunnelRemotePort, tunnel)
    /\ calls' = (calls (-) SetToBag({call}))
                    (+) SetToBag({Call(call.remote, call.name, "tunnel", tunnel)})
    /\ OnTunnelOpened(tunnel)
    /\ lastOp' = Op("tunnelOpened", tunnel.tunnelRemotePort, "", "openTunnel")
    /\ UNCHANGED <<seedPending, seedList, scope, disposed,
                   editable, boxes, lastSet>>
    /\ Observe
    /\ Render

\* openTunnel returns undefined, or rejects: nothing was opened, and the
\* continuation of forward runs before anything else can
SvcOpenFails(call, kind) ==
    /\ Pending(call)
    /\ call.state = "awaiting"
    /\ kind \in {"undefined", "rejected"}
    /\ Continue(call, Call(call.remote, call.name, kind, NoRemoteTunnel))

\* a tunnel opened (or retained) by another source
SvcExternalOpen(tunnel) ==
    /\ tunnel \in Openable(tunnel.tunnelRemotePort)
    /\ svcTunnels' = Put(svcTunnels, tunnel.tunnelRemotePort, tunnel)
    /\ OnTunnelOpened(tunnel)
    /\ lastOp' = Op("tunnelOpened", tunnel.tunnelRemotePort, "", "external")
    /\ UNCHANGED <<seedPending, seedList, calls, scope, disposed,
                   editable, boxes, lastSet>>
    /\ Observe
    /\ Render

\* the service closes a tunnel it has open (asked by closeTunnel or by
\* another source) and fires onTunnelClosed
SvcCloseTunnel(remotePort) ==
    /\ Has(svcTunnels, remotePort)
    /\ svcTunnels' = Delete(svcTunnels, remotePort)
    /\ OnTunnelClosed(remotePort)
    /\ lastOp' = Op("tunnelClosed", remotePort, "", "done")
    /\ UNCHANGED <<seedPending, seedList, calls, scope, disposed,
                   editable, boxes, lastSet>>
    /\ Observe
    /\ Render

\* ---------------------------------------------------------------- candidates, published
CandidateTunnel(remote) == Tunnel(remote, NoUri, NoPort, NoName, FALSE)
PublishedTunnel(remote) == Tunnel(remote, PublishedUri(remote), NoPort, NoName, FALSE)

\* a candidate: a detected remote port not yet forwarded or published
DetectCandidate(remote) ==
    /\ ~Has(candidates, remote)
    /\ ~Has(forwarded, remote)
    /\ ~Has(published, remote)
    /\ candidates' = Put(candidates, remote, CandidateTunnel(remote))
    /\ fired' = << >>
    /\ lastOp' = Op("detectCandidate", remote, "", "done")
    /\ UNCHANGED <<forwarded, published, seedPending, seedList, calls,
                   svcTunnels, scope, disposed,
                   editable, boxes, lastSet>>
    /\ Observe
    /\ Render

\* a tunnel advertised by the remote side
PublishTunnel(remote) ==
    /\ ~Has(published, remote)
    /\ ~Has(candidates, remote)
    /\ published' = Put(published, remote, PublishedTunnel(remote))
    /\ fired' = << >>
    /\ lastOp' = Op("publish", remote, "", "done")
    /\ UNCHANGED <<forwarded, candidates, seedPending, seedList, calls,
                   svcTunnels, scope, disposed,
                   editable, boxes, lastSet>>
    /\ Observe
    /\ Render

\* ---------------------------------------------------------------- specification
\* the tunnels the service may already have when the model is constructed
InitialTunnelLists(ports) ==
    { m \in UNION { [S -> AllRemoteTunnels] : S \in SUBSET ports } :
        \A r \in DOMAIN m : m[r].tunnelRemotePort = r }

Constructed(session) ==
    /\ scope = session
    /\ forwarded = EmptyMap
    /\ published = EmptyMap
    /\ candidates = EmptyMap
    /\ svcTunnels \in InitialTunnelLists(session.ports)
    /\ seedList = svcTunnels
    /\ seedPending = TRUE
    /\ calls = EmptyBag
    /\ fired = << >>
    /\ lastOp = [op |-> "constructor", remote |-> NoPort, result |-> "",
                 outcome |-> "done", name |-> NoName, uri |-> NoUri, trail |-> "",
                 data |-> NoData]
    /\ observed = NoObservation
    /\ rendered = IF session.panel THEN Groups ELSE NoRendering
    /\ disposed = FALSE
    /\ editable = NoEditable
    /\ boxes = {}
    /\ lastSet = NoEditable

\* one remote port, overlapping forward calls, the tunnel panel shown
Init == Constructed([ports |-> {1}, pending |-> MaxPending, panel |-> TRUE,
                     remap |-> FALSE])

\* several remote ports, one forward call at a time, no tunnel panel
InitWide == Constructed([ports |-> Ports, pending |-> 1, panel |-> FALSE,
                         remap |-> FALSE])

\* several remote ports, one forward call at a time, no tunnel panel, a
\* service that may answer openTunnel with the tunnel of another port
InitRemap == Constructed([ports |-> Ports, pending |-> 1, panel |-> FALSE,
                          remap |-> TRUE])

AwaitingCalls ==
    { Call(r, n, "awaiting", NoRemoteTunnel) : r \in Ports, n \in Names \cup {NoName} }
SettledCalls ==
    { Call(r, n, "tunnel", t) :
        r \in Ports, t \in AllRemoteTunnels, n \in Names \cup {NoName} }

Next ==
    \/ SeedResolve
    \/ \E r \in scope.ports, l \in LocalPorts \cup {NoPort}, n \in Names \cup {NoName} :
          ForwardCall(r, l, n)
    \/ \E c \in SettledCalls : ForwardResume(c)
    \/ \E r \in scope.ports, n \in Names : Name(r, n)
    \/ \E r \in scope.ports : Close(r)
    \/ \E r \in scope.ports : Address(r)
    \/ \E c \in AwaitingCalls, t \in AllRemoteTunnels : SvcOpenTunnel(c, t)
    \/ \E c \in AwaitingCalls, k \in {"undefined", "rejected"} : SvcOpenFails(c, k)
    \/ \E r \in scope.ports : \E t \in RemoteTunnels(r) : SvcExternalOpen(t)
    \/ \E r \in scope.ports : SvcCloseTunnel(r)
    \/ \E r \in scope.ports : DetectCandidate(r)
    \/ \E r \in scope.ports : PublishTunnel(r)

Spec == Init /\ [][Next]_vars

SpecWide == InitWide /\ [][Next]_vars

\* the writers of forwarded: seeding, forward, and the service's notifications
NextRemap ==
    \/ SeedResolve
    \/ \E r \in scope.ports, l \in LocalPorts \cup {NoPort}, n \in Names \cup {NoName} :
          ForwardCall(r, l, n)
    \/ \E c \in SettledCalls : ForwardResume(c)
    \/ \E c \in AwaitingCalls, t \in AllRemoteTunnels : SvcOpenTunnel(c, t)
    \/ \E c \in AwaitingCalls, k \in {"undefined", "rejected"} : SvcOpenFails(c, k)
    \/ \E r \in scope.ports : \E t \in RemoteTunnels(r) : SvcExternalOpen(t)
    \/ \E r \in scope.ports : SvcCloseTunnel(r)

SpecRemap == InitRemap /\ [][NextRemap]_vars

\* naming the ports the model was seeded with: several remote ports
InitEditable == Constructed([ports |-> Ports, pending |-> 1, panel |-> FALSE,
                             remap |-> FALSE])

NextEditable ==
    \/ SeedResolve
    \/ \E item \in ViewForwarded : NameTunnelAction(item)
    \/ \E r \in scope.ports, n \in Names, success \in BOOLEAN : OnFinish(r, n, success)
    \/ \E r \in scope.ports : GetEditableData(r)

SpecEditable == InitEditable /\ [][NextEditable]_vars

\* the session of Spec, ended at any moment by dispose()
NextDisposal == Next \/ Dispose

SpecDisposal == Init /\ [][NextDisposal]_vars

\* ---------------------------------------------------------------- properties
\* the entry of port k is the same before and after the step
SameEntry(k) ==
    /\ Has(forwarded, k) <=> Has(forwarded', k)
    /\ Has(forwarded, k) => forwarded'[k] = forwarded[k]

\* a port is a candidate while forwarded or published
Overlaps(cand, fwd, pub, r) == Has(cand, r) /\ (Has(fwd, r) \/ Has(pub, r))

\* no forward call is suspended and the seeding has resolved
Quiescent == calls = EmptyBag /\ ~seedPending

\* the forward call the subscriber watched has just completed with a tunnel
\* whose address is resolved, and nothing is left to run
ObservedForwardDone ==
    /\ lastOp.op = "forwardDone"
    /\ lastOp.result = "tunnel"
    /\ observed.remote = lastOp.remote
    /\ Quiescent

\* C1: when the continuation of forward(r, local, name) runs with a tunnel
\* whose local address is resolved, forwarded[r] is afterwards the entry
\* {remote: r, local: the tunnel's local port, name: name, closeable: true,
\* localUri: the tunnel's address}.
C1_ForwardInserts ==
    [][\A c \in SettledCalls :
          ( /\ Pending(c)
            /\ c.tunnel.localAddress # NoUri
            /\ lastOp'.op = "forwardDone"
            /\ calls' = calls (-) SetToBag({c}) )
          => /\ Has(forwarded', c.remote)
             /\ forwarded'[c.remote] =
                  [remote |-> c.remote, local |-> c.tunnel.tunnelLocalPort,
                   name |-> c.name, closeable |-> TRUE,
                   localUri |-> c.tunnel.localAddress]]_vars

C1_Witness ==
    /\ lastOp.op = "forwardDone"
    /\ lastOp.result = "tunnel"
    /\ Has(forwarded, lastOp.remote)
    /\ forwarded[lastOp.remote].name = "web"
    /\ forwarded[lastOp.remote].local \in LocalPorts

\* C2 (as stated): a successful forward(r) on a model without r yields
\* exactly one forwarded-port-added event for r by the time the system is
\* quiescent, and forwarded then holds r.
C2_ExactlyOneEvent ==
    ObservedForwardDone => observed.seen = 1 /\ Has(forwarded, lastOp.remote)

\* C2 (amended): with no other forward(r) and no open of r by another source
\* in between, a successful forward(r) on a model without r yields exactly
\* two forwarded-port-added events for r by the time the system is
\* quiescent, one from the tunnel-opened notification of its own open and
\* one from forward itself, and forwarded then holds r.
C2_ExactlyTwoEvents ==
    ObservedForwardDone => observed.seen = 2 /\ Has(forwarded, lastOp.remote)

C2_Witness ==
    /\ ObservedForwardDone
    /\ observed.seen = 2
    /\ forwarded[lastOp.remote].closeable

\* C3: forward(r) called while r is a key of forwarded changes none of
\* forwarded, published, candidates, fires no event and does not call
\* openTunnel (no call is suspended, the promise is fulfilled at once).
C3_ForwardOfForwardedIsNoOp ==
    [][(lastOp'.op = "forward" /\ Has(forwarded, lastOp'.remote))
          => /\ UNCHANGED <<forwarded, published, candidates, calls, svcTunnels>>
             /\ fired' = << >>
             /\ lastOp'.outcome = "fulfilled"]_vars

C3_Witness ==
    /\ lastOp.op = "forward"
    /\ lastOp.outcome = "fulfilled"
    /\ Has(forwarded, lastOp.remote)
    /\ fired = << >>

\* C4: when openTunnel rejects, returns no tunnel, or returns a tunnel
\* without a resolved local address, the continuation of forward changes
\* none of forwarded, published, candidates and fires no event.
C4_FailedForwardChangesNothing ==
    [][(lastOp'.op = "forwardDone" /\ lastOp'.result # "tunnel")
          => /\ UNCHANGED <<forwarded, published, candidates>>
             /\ fired' = << >>]_vars

C4_Witness ==
    /\ lastOp.op = "forwardDone"
    /\ lastOp.result = "unresolved"
    /\ ~Has(forwarded, lastOp.remote)

C6_ClosedNotification ==
    [][lastOp'.op = "tunnelClosed" =>
          LET r == lastOp'.remote IN
          /\ UNCHANGED <<published, candidates>>
          /\ \A k \in Ports \ {r} : SameEntry(k)
          /\ IF Has(forwarded, r)
             THEN ~Has(forwarded', r) /\ fired' = << ClosePortEvent(r) >>
             ELSE UNCHANGED forwarded /\ fired' = << >>]_vars

C6_Witness ==
    /\ lastOp.op = "tunnelClosed"
    /\ fired = << ClosePortEvent(lastOp.remote) >>
    /\ ~Has(forwarded, lastOp.remote)

\* C7 (as stated): in every reachable state no remote port is a key of
\* candidates while it is a key of forwarded or of published.
C7_CandidatesDisjoint ==
    \A r \in Ports : ~Overlaps(candidates, forwarded, published, r)

\* C7 (amended): no step other than the resolution of the seeding and the
\* continuation of a forward call makes a port a key of candidates while it
\* is a key of forwarded or published; those two insert into forwarded
\* without looking at candidates.
C7_OverlapOnlyBySeedOrForward ==
    [][\A r \in Ports :
          ( /\ Overlaps(candidates', forwarded', published', r)
            /\ ~Overlaps(candidates, forwarded, published, r) )
          => lastOp'.op \in {"seed", "forwardDone"}]_vars

C7_Witness ==
    /\ lastOp.op = "seed"
    /\ \E r \in Ports : Overlaps(candidates, forwarded, published, r)

\* C8: on every tunnel-opened notification for r exactly one
\* forwarded-port-added event fires, and its payload is the entry stored in
\* forwarded at r, never an absent entry.
C8_OpenedFiresStoredEntry ==
    lastOp.op = "tunnelOpened" =>
        /\ Len(fired) = 1
        /\ fired[1].type = "onForwardPort"
        /\ fired[1].tunnel # {}
        /\ fired[1].tunnel = Get(forwarded, lastOp.remote)

\* C9: on a tunnel-opened notification for r, r is removed from candidates
\* (the other candidates stay), and if r is not in forwarded and the tunnel
\* has a resolved local address, the entry {remote: r, local and localUri
\* from the tunnel, no name, not closeable} is inserted into forwarded.
C9_OpenedNotification ==
    [][lastOp'.op = "tunnelOpened" =>
          LET r == lastOp'.remote
              t == svcTunnels'[r]
          IN  /\ ~Has(candidates', r)
              /\ DOMAIN candidates' = DOMAIN candidates \ {r}
              /\ \A k \in DOMAIN candidates' : candidates'[k] = candidates[k]
              /\ (~Has(forwarded, r) /\ t.localAddress # NoUri)
                    => /\ Has(forwarded', r)
                       /\ forwarded'[r] =
                            [remote |-> r, local |-> t.tunnelLocalPort,
                             localUri |-> t.localAddress, name |-> NoName,
                             closeable |-> FALSE]]_vars

C9_Witness ==
    /\ lastOp.op = "tunnelOpened"
    /\ Has(forwarded, lastOp.remote)
    /\ ~forwarded[lastOp.remote].closeable
    /\ forwarded[lastOp.remote].name = NoName
    /\ fired = << ForwardPortEvent({forwarded[lastOp.remote]}) >>

\* C10: a key leaves forwarded only in the step that processes a
\* tunnel-closed notification for it, and every tunnel-closed notification
\* for a forwarded port removes it.
C10_RemovedExactlyOnClose ==
    [][/\ \A r \in Ports :
            (Has(forwarded, r) /\ ~Has(forwarded', r))
               => (lastOp'.op = "tunnelClosed" /\ lastOp'.remote = r)
       /\ (lastOp'.op = "tunnelClosed" /\ Has(forwarded, lastOp'.remote))
               => ~Has(forwarded', lastOp'.remote)]_vars

C10_Witness ==
    /\ lastOp.op = "tunnelClosed"
    /\ fired # << >>
    /\ ~Has(forwarded, lastOp.remote)
    /\ ~Has(svcTunnels, lastOp.remote)

\* C11: close(r) only hands the request to the tunnel service: the call itself
\* leaves forwarded, published and candidates as they were and fires no event,
\* whether or not r is forwarded or closeable, so a forwarded r is still a key
\* of forwarded when close(r) has returned.
C11_CloseOnlyDelegates ==
    [][lastOp'.op = "close"
          => /\ UNCHANGED <<forwarded, published, candidates, calls, svcTunnels>>
             /\ fired' = << >>
             /\ lastOp'.outcome = "closeTunnel"]_vars

\* close(r) has returned for a closeable forwarded r, and r is still forwarded
C11_Witness ==
    /\ lastOp.op = "close" /\ fired = << >>
    /\ Has(forwarded, lastOp.remote) /\ forwarded[lastOp.remote].closeable

\* C12: name(r, n) with r a key of forwarded leaves forwarded[r] with name n
\* and every other field as it was, leaves every other entry and the other
\* maps as they were, and fires exactly one port-name-changed event carrying
\* r; with r not a key of forwarded (be it published or a candidate) it
\* changes nothing and fires no event.
C12_NameRenamesOneEntry ==
    [][lastOp'.op = "name"
          => LET r == lastOp'.remote
             IN  /\ UNCHANGED <<published, candidates, calls, svcTunnels>>
                 /\ \A k \in Ports \ {r} : SameEntry(k)
                 /\ IF Has(forwarded, r)
                    THEN /\ Has(forwarded', r)
                         /\ forwarded'[r] = [forwarded[r] EXCEPT !.name = lastOp'.name]
                         /\ fired' = << PortNameEvent(r) >>
                    ELSE /\ ~Has(forwarded', r)
                         /\ fired' = << >>]_vars

\* a forwarded port has just been named while another port is forwarded too
\* and kept its own name
C12_Witness ==
    /\ lastOp.op = "name" /\ fired = << PortNameEvent(lastOp.remote) >>
    /\ Has(forwarded, lastOp.remote)
    /\ forwarded[lastOp.remote].name = lastOp.name
    /\ \E k \in Ports \ {lastOp.remote} :
          Has(forwarded, k) /\ forwarded[k].name # lastOp.name

\* C13: address(r) is a lookup: it returns forwarded[r].localUri when r is a
\* key of forwarded, else published[r].localUri when r is a key of published,
\* else nothing; it changes no map and fires no event.
C13_AddressIsLookup ==
    [][lastOp'.op = "address"
          => LET r == lastOp'.remote
             IN  /\ UNCHANGED <<forwarded, published, candidates, calls, svcTunnels>>
                 /\ fired' = << >>
                 /\ Has(forwarded, r) => lastOp'.uri = forwarded[r].localUri
                 /\ (~Has(forwarded, r) /\ Has(published, r))
                       => lastOp'.uri = published[r].localUri
                 /\ (~Has(forwarded, r) /\ ~Has(published, r))
                       => lastOp'.uri = NoUri]_vars

\* address(r) has answered for a port that is forwarded and published under
\* different addresses: the forwarded one was returned
C13_Witness ==
    /\ lastOp.op = "address"
    /\ Has(forwarded, lastOp.remote) /\ Has(published, lastOp.remote)
    /\ forwarded[lastOp.remote].localUri # published[lastOp.remote].localUri
    /\ lastOp.uri = forwarded[lastOp.remote].localUri

\* C14: an entry of forwarded is closeable only through a successful forward
\* call for its port: a step after which forwarded[r] is closeable, while
\* before it r was not forwarded or not closeable, is the continuation of a
\* forward(r) whose openTunnel returned a tunnel; and the entry that seeding
\* or a tunnel-opened notification inserts is not closeable.
C14_CloseableOnlyByForward ==
    [][/\ \A r \in Ports :
            (/\ Has(forwarded', r) /\ forwarded'[r].closeable
             /\ ~(Has(forwarded, r) /\ forwarded[r].closeable))
               => /\ lastOp'.op = "forwardDone" /\ lastOp'.remote = r
                  /\ lastOp'.result = "tunnel"
       /\ \A r \in Ports :
            (/\ lastOp'.op \in {"seed", "tunnelOpened"}
             /\ Has(forwarded', r) /\ ~SameEntry(r))
               => ~forwarded'[r].closeable]_vars

\* forwarded holds a closeable entry put there by an unnamed forward call,
\* over the entry the tunnel-opened notification of that call had inserted
C14_Witness ==
    /\ lastOp.op = "forwardDone" /\ lastOp.result = "tunnel"
    /\ Has(forwarded, lastOp.remote)
    /\ forwarded[lastOp.remote].closeable
    /\ forwarded[lastOp.remote].name = NoName
    /\ fired = << ForwardPortEvent({forwarded[lastOp.remote]}) >>

C16_SeedingInsertsResolvedSilently ==
    /\ (forwarded = EmptyMap /\ seedPending = TRUE)
    /\ [][lastOp'.op = "seed"
             => /\ seedPending /\ ~seedPending'
                /\ fired' = << >>
                /\ UNCHANGED <<published, candidates, calls, svcTunnels>>
                /\ \A r \in Ports :
                      IF Has(seedList, r) /\ seedList[r].localAddress # NoUri
                      THEN /\ Has(forwarded', r)
                           /\ forwarded'[r] =
                                 Tunnel(r, seedList[r].localAddress,
                                        seedList[r].tunnelLocalPort, NoName, FALSE)
                      ELSE SameEntry(r)]_vars

\* the list has just resolved: the tunnel of port 1 was taken, the tunnel of
\* port 2, which the service still has without a local address, was skipped
C16_Witness ==
    /\ lastOp.op = "seed" /\ fired = << >>
    /\ Has(forwarded, 1) /\ ~forwarded[1].closeable
    /\ Has(svcTunnels, 2) /\ svcTunnels[2].localAddress = NoUri
    /\ ~Has(forwarded, 2)

\* C17: when forward(r) has got its tunnel and the tunnel-closed notification
\* for r is processed next, r is no longer a key of forwarded and exactly one
\* port-closed event carrying r has fired; with r not published, the model
\* has no address for r, and an address(r) asked next returns nothing.
C17_ForwardThenClosed ==
    LET r == lastOp.remote
    IN  /\ lastOp.trail = "closed"
            => /\ ~Has(forwarded, r)
               /\ fired = << ClosePortEvent(r) >>
               /\ ~Has(published, r) => AddressOf(r) = NoUri
        /\ (lastOp.trail = "asked" /\ ~Has(published, r))
            => /\ ~Has(forwarded, r)
               /\ lastOp.uri = NoUri

\* forward(r) succeeded, the service closed the tunnel, address(r) was asked
\* and found nothing
C17_Witness ==
    /\ lastOp.op = "address" /\ lastOp.trail = "asked"
    /\ ~Has(published, lastOp.remote)
    /\ lastOp.uri = NoUri

\* the items of the Forwarded group of a list of groups
ForwardedShown(groups) ==
    UNION { groups[i].items :
              i \in { j \in 1..Len(groups) : groups[j].tunnelType = "Forwarded" } }

\* C18: every step that changes forwarded fires a change event of the model,
\* and so, once no forward call is suspended and the tunnel list has
\* resolved, the forwarded ports the panel last derived are the forwarded
\* ports the view model derives now.
C18_ViewNeverStale ==
    /\ [](Quiescent => ForwardedShown(rendered) = ForwardedShown(Groups))
    /\ [][forwarded' # forwarded => fired' # << >>]_vars

\* C19: a tunnel-opened notification for a port r that is already a key of
\* forwarded leaves forwarded as it was (the name, closeable, local and
\* localUri of forwarded[r] are not overwritten by the notification's tunnel)
\* and still fires one forwarded-port-added event, carrying that entry.
C19_OpenedKeepsExistingEntry ==
    [][(lastOp'.op = "tunnelOpened" /\ Has(forwarded, lastOp'.remote))
          => /\ forwarded' = forwarded
             /\ fired' = << ForwardPortEvent({forwarded[lastOp'.remote]}) >>]_vars

\* a notification has arrived for a port forwarded under a name by a forward
\* call: the entry is still named and closeable, and the event carries it
C19_Witness ==
    /\ lastOp.op = "tunnelOpened"
    /\ Has(forwarded, lastOp.remote)
    /\ forwarded[lastOp.remote].closeable
    /\ forwarded[lastOp.remote].name = "web"
    /\ fired = << ForwardPortEvent({forwarded[lastOp.remote]}) >>

\* C20: forward calls for one port overlap. A forward(r) made while another
\* forward(r) is suspended and r is still not a key of forwarded passes the
\* absence check too and suspends on its own openTunnel; and the continuation
\* of each call that got a tunnel with a local address stores its own entry
\* at r, over whatever is there, and fires its event, so that forwarded has
\* one entry for r, carrying the name of the call that resumed last.
C20_OverlappingForwards ==
    [][/\ (/\ lastOp'.op = "forward" /\ ~Has(forwarded, lastOp'.remote)
           /\ \E c \in BagToSet(calls) : c.remote = lastOp'.remote)
             => /\ lastOp'.outcome = "awaiting"
                /\ BagCardinality(calls') = BagCardinality(calls) + 1
                /\ \E n \in Names \cup {NoName} :
                      calls' = calls (+) SetToBag({Call(lastOp'.remote, n, "awaiting",
                                                        NoRemoteTunnel)})
       /\ \A c \in BagToSet(calls) :
            (/\ c.state = "tunnel" /\ c.tunnel.localAddress # NoUri
             /\ lastOp'.op = "forwardDone" /\ calls' = calls (-) SetToBag({c}))
               => /\ DOMAIN forwarded' = DOMAIN forwarded \cup {c.remote}
                  /\ forwarded'[c.remote].name = c.name
                  /\ forwarded'[c.remote].closeable
                  /\ fired' = << ForwardPortEvent({forwarded'[c.remote]}) >>]_vars

\* two forward calls for one port were in flight together: the first to
\* resume has stored its entry, the other holds its tunnel and will store
\* an entry under a different name
C20_Witness ==
    /\ lastOp.op = "forwardDone" /\ lastOp.result = "tunnel"
    /\ Has(forwarded, lastOp.remote) /\ forwarded[lastOp.remote].closeable
    /\ \E c \in BagToSet(calls) :
          /\ c.remote = lastOp.remote /\ c.state = "tunnel"
          /\ c.tunnel.localAddress # NoUri
          /\ c.name # forwarded[lastOp.remote].name

\* C21: once no forward call is suspended and the tunnel list has resolved,
\* every port that a forward call stored in forwarded (a closeable entry) is
\* a port whose tunnel the service has open: forwarded keeps no such port
\* after the service reported its closure with no later open.
C21_ForwardedAreOpen ==
    Quiescent
        => \A r \in DOMAIN forwarded : forwarded[r].closeable => Has(svcTunnels, r)

\* C22: an entry that a successful forward stored at r stays closeable and
\* keeps its name through every step that is neither name(r, _) nor the
\* tunnel-closed notification for r; in particular the tunnel list resolving
\* after the forward does not put an unnamed entry that cannot be closed in
\* its place.
C22_ForwardEntryStays ==
    [][\A r \in Ports :
          (/\ Has(forwarded, r) /\ forwarded[r].closeable
           /\ ~(lastOp'.op \in {"name", "tunnelClosed"} /\ lastOp'.remote = r))
             => /\ Has(forwarded', r)
                /\ forwarded'[r].closeable
                /\ forwarded'[r].name = forwarded[r].name]_vars

\* the place of a kind of group in the panel
GroupRank(tunnelType) ==
    CASE tunnelType = "Forwarded" -> 1
      [] tunnelType = "Published" -> 2
      [] tunnelType = "Candidate" -> 3
      [] tunnelType = "Add" -> 4

\* C23: the groups of the view model are an ordered list: it has a Forwarded
\* group exactly when forwarded is not empty, a Published group exactly when
\* published is not empty, a Candidates group exactly when the derived list
\* of candidates is not empty, each at most once and in that order, and its
\* last element, and no other, is the Add a Port group.
C23_GroupsOrdered ==
    LET g == Groups
        Shows(t) == \E i \in 1..Len(g) : g[i].tunnelType = t
    IN  /\ Shows("Forwarded") <=> forwarded # EmptyMap
        /\ Shows("Published") <=> published # EmptyMap
        /\ Shows("Candidate") <=> ViewCandidates # {}
        /\ Len(g) >= 1 /\ g[Len(g)].tunnelType = "Add"
        /\ \A i, j \in 1..Len(g) :
              i < j => GroupRank(g[i].tunnelType) < GroupRank(g[j].tunnelType)

\* all four groups are shown: one port forwarded and published, another one
\* a candidate only
C23_Witness ==
    /\ Len(Groups) = 4
    /\ forwarded # EmptyMap /\ published # EmptyMap /\ ViewCandidates # {}
    /\ Groups[1].tunnelType = "Forwarded" /\ Groups[4].tunnelType = "Add"

\* C25: every entry of forwarded has a resolved localUri, so that the model
\* has an address for every port that is a key of forwarded, and an
\* address(r) asked for such a port has returned one.
C25_ForwardedHaveAddress ==
    /\ \A r \in DOMAIN forwarded :
          forwarded[r].localUri # NoUri /\ AddressOf(r) # NoUri
    /\ (lastOp.op = "address" /\ Has(forwarded, lastOp.remote))
          => lastOp.uri # NoUri

\* address(r) has returned an address for a forwarded port whose tunnel the
\* service has closed and opened again, this time without a local address
C25_Witness ==
    /\ lastOp.op = "address" /\ Has(forwarded, lastOp.remote)
    /\ lastOp.uri = forwarded[lastOp.remote].localUri
    /\ Has(svcTunnels, lastOp.remote)
    /\ svcTunnels[lastOp.remote].localAddress = NoUri

\* C24: every entry of forwarded stored at key k has remote = k, whichever of
\* seeding, a tunnel-opened notification and forward stored it, and whatever
\* remote port the tunnel that openTunnel returned reports.
C24_RemoteIsKey ==
    \A k \in DOMAIN forwarded : forwarded[k].remote = k

\* C26: once the model is disposed its state is frozen and it emits nothing:
\* no step of the model changes forwarded or fires an event, be it the
\* continuation of a forward call that was suspended when the model was
\* disposed, and a notification of the service changes neither forwarded nor
\* candidates.
C26_DisposedIsFrozen ==
    [][disposed
          => /\ UNCHANGED forwarded
             /\ fired' = << >>
             /\ lastOp'.op \in {"tunnelOpened", "tunnelClosed"}
                   => UNCHANGED candidates]_vars

\* C27: the service holds at most one editable port. What getEditableData(r)
\* returns is, if anything, the data of the most recent setEditable call,
\* which was for r; every setEditable(r, _) fires onDidChangeEditable
\* carrying r; and setEditable(r, null) clears the slot only when it holds
\* port r: the edit of another port that is in progress stays as it is.
C27_OneEditablePort ==
    /\ []((lastOp.op = "getEditableData" /\ lastOp.data # NoData)
            => lastSet = [remote |-> lastOp.remote, data |-> lastOp.data])
    /\ [][lastOp'.op = "setEditable"
             => /\ fired' # << >>
                /\ fired'[Len(fired')] = EditableEvent(lastOp'.remote)
                /\ (/\ lastOp'.result = "null"
                    /\ editable # NoEditable
                    /\ editable.remote # lastOp'.remote)
                      => editable' = editable]_vars

\* C27, as the code has it: the slot always shows the most recent setEditable
\* call, so that getEditableData(r) returns, if anything, the data of that
\* call, which was for r; every setEditable(r, _) fires onDidChangeEditable
\* carrying r; and setEditable(r, null) empties the slot whichever port it
\* holds, the edit of another port included.
C27_SlotFollowsLastCall ==
    /\ [](editable = IF lastSet.data = NoData THEN NoEditable ELSE lastSet)
    /\ []((lastOp.op = "getEditableData" /\ lastOp.data # NoData)
            => lastSet = [remote |-> lastOp.remote, data |-> lastOp.data])
    /\ [][lastOp'.op = "setEditable"
             => /\ fired' # << >>
                /\ fired'[Len(fired')] = EditableEvent(lastOp'.remote)
                /\ lastSet'.remote = lastOp'.remote
                /\ (lastOp'.result = "null") <=> (lastSet'.data = NoData)
                /\ lastOp'.result = "null" => editable' = NoEditable]_vars

\* setEditable(r, null) has just run while the name of another port is still
\* being typed, and the slot is empty
C27_Witness ==
    /\ lastOp.op = "setEditable" /\ lastOp.result = "null"
    /\ boxes \ {lastOp.remote} # {}
    /\ editable = NoEditable
    /\ \A r \in Ports : GetEditableDataOf(r) = NoData

====
